---- MODULE Spec2Model ----
(***************************************************************************)
(* Model of the CodeSummarizer repository: the directory walk that sends   *)
(* every recognised code file to the Ollama text-generation endpoint and   *)
(* the report written from the collected summaries.                        *)
(*                                                                         *)
(* Two programs share the pipeline and are told apart by `profile`:        *)
(*   "CodeAnalyzer"   : main.py + model_handler.py + pdf_generator.py      *)
(*   "CodeSummarizer" : CodeSummarizer.py (plain-text report)              *)
(*                                                                         *)
(* Text is a sequence of tokens (the empty string is << >>).  A Python     *)
(* value is a record [t, s]: None, or a str with its token sequence in s.  *)
(* A file is its significant bytes followed by ASCII padding up to its     *)
(* stat size; padding never changes which codec accepts the file.          *)
(***************************************************************************)
EXTENDS Integers, Sequences, FiniteSets, TLC

\* ---- bounds ----
MaxFiles == 2
MaxLen == 3

\* ---- Python values ----
None == [t |-> "None", s |-> << >>]
Str(s) == [t |-> "str", s |-> s]

\* `if summary:` -- None and the empty string are falsy
Truthy_notNone(v) == v.t # "None"
Truthy(v) == v.t = "str" /\ v.s # << >>

\* outcome of a call: a returned value or a raised exception
Ret(v) == [k |-> "ret", v |-> v, sent |-> 0]
Raise(e) == [k |-> "raise", v |-> Str(<<e>>), sent |-> 0]

Profiles == {"CodeAnalyzer", "CodeSummarizer"}

\* ---- FileClassifier ----
BaseExtensions ==
    {".py", ".js", ".java", ".cpp", ".c", ".h", ".cs", ".php",
     ".rb", ".go", ".rs", ".ts", ".html"}

code_extensions(p) ==
    IF p = "CodeAnalyzer" THEN BaseExtensions \cup {".css"} ELSE BaseExtensions

\* suffixes of the entries a walk can meet ("" : no extension)
Suffixes == {".py", ".PY", ".css", ".exe", ""}

\* str.lower() on the suffixes in use
Lower(s) ==
    CASE s = ".PY" -> ".py"
      [] OTHER -> s

\* suffix[1:]
DropDot(s) ==
    CASE s = ".py" -> "py"
      [] s = ".PY" -> "PY"
      [] s = ".css" -> "css"
      [] s = ".exe" -> "exe"
      [] OTHER -> ""

is_code_file_any(p, suffix) == TRUE
is_code_file(p, suffix) == Lower(suffix) \in code_extensions(p)

\* relative path of the i-th entry of the walk
RelPath(i, suffix) == ("f" \o ToString(i)) \o suffix

\* ---- EncodingReader ----
encodings == <<"utf-8", "utf-8-sig", "latin-1", "cp1252">>

Alphabet == <<97, 128, 129, 187, 191, 239>>
BOM == <<239, 187, 191>>

DecodeError == [ok |-> FALSE, text |-> << >>]

Utf8Width(b1) ==
    CASE b1 < 128 -> 1
      [] b1 \in 194..223 -> 2
      [] b1 \in 224..239 -> 3
      [] b1 \in 240..244 -> 4
      [] OTHER -> 0

Utf8SecondOk(b1, b2) ==
    /\ b2 \in 128..191
    /\ (b1 = 224 => b2 >= 160)
    /\ (b1 = 237 => b2 <= 159)
    /\ (b1 = 240 => b2 >= 144)
    /\ (b1 = 244 => b2 <= 143)

Utf8CodePoint(b, n) ==
    CASE n = 1 -> b[1]
      [] n = 2 -> (b[1] - 192) * 64 + (b[2] - 128)
      [] n = 3 -> (b[1] - 224) * 4096 + (b[2] - 128) * 64 + (b[3] - 128)
      [] OTHER -> (b[1] - 240) * 262144 + (b[2] - 128) * 4096
                  + (b[3] - 128) * 64 + (b[4] - 128)

RECURSIVE utf8_decode(_)
utf8_decode(b) ==
    IF b = << >> THEN [ok |-> TRUE, text |-> << >>]
    ELSE LET n == Utf8Width(b[1])
         IN IF \/ n = 0
               \/ Len(b) < n
               \/ (n >= 2 /\ ~Utf8SecondOk(b[1], b[2]))
               \/ \E j \in 3..n : b[j] \notin 128..191
            THEN DecodeError
            ELSE LET rest == utf8_decode(SubSeq(b, n + 1, Len(b)))
                 IN IF rest.ok
                    THEN [ok |-> TRUE, text |-> <<Utf8CodePoint(b, n)>> \o rest.text]
                    ELSE DecodeError

utf8_sig_decode(b) ==
    IF Len(b) >= 3 /\ SubSeq(b, 1, 3) = BOM
    THEN utf8_decode(SubSeq(b, 4, Len(b)))
    ELSE utf8_decode(b)

latin1_decode(b) == [ok |-> TRUE, text |-> b]

Cp1252Undefined == {129, 141, 143, 144, 157}

Cp1252High ==
    <<8364, 0, 8218, 402, 8222, 8230, 8224, 8225, 710, 8240, 352, 8249, 338,
      0, 381, 0, 0, 8216, 8217, 8220, 8221, 8226, 8211, 8212, 732, 8482, 353,
      8250, 339, 0, 382, 376>>

Cp1252Char(c) == IF c \in 128..159 THEN Cp1252High[c - 127] ELSE c

cp1252_decode(b) ==
    IF \E j \in 1..Len(b) : b[j] \in Cp1252Undefined
    THEN DecodeError
    ELSE [ok |-> TRUE, text |-> [j \in 1..Len(b) |-> Cp1252Char(b[j])]]

decode(enc, b) ==
    CASE enc = "utf-8" -> utf8_decode(b)
      [] enc = "utf-8-sig" -> utf8_sig_decode(b)
      [] enc = "latin-1" -> latin1_decode(b)
      [] OTHER -> cp1252_decode(b)

\* the for/try/break/continue loop over the encodings, from position i:
\* the encodings tried, the one that succeeded and the text it produced
RECURSIVE read_with_encodings(_, _, _)
read_with_encodings(encs, b, i) ==
    IF i > Len(encs)
    THEN [tried |-> << >>, used |-> "", code_content |-> None]
    ELSE LET d == decode(encs[i], b)
         IN IF d.ok
            THEN [tried |-> <<encs[i]>>, used |-> encs[i],
                  code_content |-> Str(d.text)]
            ELSE LET r == read_with_encodings(encs, b, i + 1)
                 IN [r EXCEPT !.tried = <<encs[i]>> \o r.tried]

\* ---- PromptBuilder ----
generate_prompt(code, suffix) ==
    [template |-> "five-point analysis", hint |-> DropDot(suffix), code |-> code.s]

\* ---- SummaryClient ----
\* what the HTTP exchange with the Ollama endpoint can produce
Summaries ==
    {<<"Summary A">>, <<"# ", "Summary B", "\n\n", "<unclosed", "\n\n", "tail">>}

Responses ==
    {[kind |-> k, value |-> None] :
        k \in {"conn_error", "http_error", "bad_json", "non_object", "no_key"}}
    \cup {[kind |-> "value", value |-> v] :
        v \in {None, Str(<< >>)} \cup {Str(t) : t \in Summaries}}

\* model_handler.py never imports sys, CodeSummarizer.py does
sys_imported(p) == p = "CodeSummarizer"

ollama_except_message(p) == Ret(Str(<<"Error communicating with Ollama">>))
\* the two except clauses: print(..., file=sys.stderr); return None
ollama_except(p) == IF sys_imported(p) THEN Ret(None) ELSE Raise("NameError")

call_ollama_retry(p, resp) ==
    LET r == CASE resp.kind \in {"conn_error", "http_error", "bad_json"} -> ollama_except(p)
               [] resp.kind = "non_object" -> Raise("AttributeError")
               [] resp.kind = "no_key" -> Ret(None)
               [] OTHER -> Ret(resp.value)
    IN [r EXCEPT !.sent = IF resp.kind = "conn_error" THEN 2 ELSE 1]

\* one requests.post, raise_for_status, response.json().get("response")
call_ollama(p, resp) ==
    LET r == CASE resp.kind \in {"conn_error", "http_error", "bad_json"} -> ollama_except(p)
               [] resp.kind = "non_object" -> Raise("AttributeError")
               [] resp.kind = "no_key" -> Ret(None)
               [] OTHER -> Ret(resp.value)
    IN [r EXCEPT !.sent = 1]

\* ---- CodeSummarizer._format_output ----
SEP == "================================================================================"
GREEN == "ESC[32m"
YELLOW == "ESC[33m"
RESET_ALL == "ESC[0m"

format_output(filepath, summary) ==
    Str(<<"\n", SEP, "\n", GREEN, "Code Analysis for: ", filepath, RESET_ALL,
          "\n", SEP, "\n\n">> \o summary.s \o <<"\n\n", SEP, "\n">>)

\* ---- process_file ----
max_file_size(p) == IF p = "CodeAnalyzer" THEN 500 * 1024 ELSE 100 * 1024

too_large(p, size) == size > max_file_size(p)

\* `except Exception as e: print(...); return None`
process_file_except_reraise(r) == r
process_file_except(r) == IF r.k = "raise" THEN [r EXCEPT !.k = "ret", !.v = None] ELSE r

\* tail of process_file once the prompt has been sent
summarize_result(p, relative_path, r) ==
    IF r.k = "raise" THEN r
    ELSE IF p = "CodeSummarizer"
         THEN IF Truthy(r.v)
              THEN [r EXCEPT !.v = format_output(relative_path, r.v)]
              ELSE [r EXCEPT !.v = None]
         ELSE r

\* ---- process_directory bookkeeping ----
append_summary_front(summaries, pair) == <<pair>> \o summaries
append_summary(summaries, pair) == Append(summaries, pair)

append_failed_never(p, failed_files, relative_path) == failed_files
append_failed(p, failed_files, relative_path) ==
    IF p = "CodeAnalyzer" THEN Append(failed_files, relative_path) ELSE failed_files

NoStats == [set |-> FALSE, total |-> 0, success |-> 0, skipped |-> 0, failed |-> 0]

make_stats(p, total_files, summaries, skipped_files, failed_files) ==
    IF p = "CodeAnalyzer"
    THEN [set |-> TRUE, total |-> total_files, success |-> Len(summaries),
          skipped |-> Len(skipped_files), failed |-> Len(failed_files)]
    ELSE NoStats

\* ---- ReportRenderer: plain text (CodeSummarizer.main) ----
RECURSIVE toc_lines(_)
toc_lines(summaries) ==
    IF summaries = << >> THEN << >>
    ELSE <<"- ", Head(summaries)[1], "\n">> \o toc_lines(Tail(summaries))

IsColorCode(t) == t \in {GREEN, YELLOW, RESET_ALL}

\* summary.replace(Fore.GREEN, '').replace(Fore.YELLOW, '').replace(Style.RESET_ALL, '')
clean_summary(tokens) == SelectSeq(tokens, LAMBDA t : ~IsColorCode(t))

RECURSIVE clean_summaries(_)
clean_summaries(summaries) ==
    IF summaries = << >> THEN << >>
    ELSE clean_summary(Head(summaries)[2].s) \o clean_summaries(Tail(summaries))

text_report(summaries) ==
    <<"Table of Contents", "\n", SEP, "\n">> \o toc_lines(summaries)
        \o <<"\n", SEP, "\n">> \o clean_summaries(summaries)

\* ---- ReportRenderer: PDF (PDFGenerator) ----
IsStripped(t) == IsColorCode(t) \/ t \in {"# ", "\\"}

\* _clean_markdown: colour codes, heading markers and backslashes are removed
clean_markdown(tokens) == SelectSeq(tokens, LAMBDA t : ~IsStripped(t))

\* cleaned_summary.split('\n\n')
RECURSIVE split_sections(_, _)
split_sections(tokens, acc) ==
    IF tokens = << >> THEN <<acc>>
    ELSE IF Head(tokens) = "\n\n"
         THEN <<acc>> \o split_sections(Tail(tokens), << >>)
         ELSE split_sections(Tail(tokens), Append(acc, Head(tokens)))

\* Paragraph(...) raises on markup it cannot parse
Renders(section) == \A j \in 1..Len(section) : section[j] # "<unclosed"

RECURSIVE section_blocks(_)
section_blocks(sections) ==
    IF sections = << >> THEN << >>
    ELSE LET sec == Head(sections)
         IN (IF sec # << >> /\ Renders(sec)
             THEN <<[style |-> "Normal", text |-> sec]>>
             ELSE << >>) \o section_blocks(Tail(sections))

RECURSIVE toc_entries(_, _)
toc_entries(summaries, i) ==
    IF summaries = << >> THEN << >>
    ELSE <<[style |-> "Normal", text |-> <<ToString(i), ". ", Head(summaries)[1]>>]>>
         \o toc_entries(Tail(summaries), i + 1)

RECURSIVE file_sections(_)
file_sections(summaries) ==
    IF summaries = << >> THEN << >>
    ELSE <<[style |-> "FileHeader", text |-> <<"File: ", Head(summaries)[1]>>]>>
         \o section_blocks(split_sections(clean_markdown(Head(summaries)[2].s), << >>))
         \o file_sections(Tail(summaries))

create_pdf_summary(summaries, directory_name, stats) ==
    <<[style |-> "Title", text |-> <<"Code Analysis Report - ", directory_name>>],
      [style |-> "Table",
       text |-> <<"Total Files", ToString(stats.total),
                  "Successfully Processed", ToString(stats.success),
                  "Skipped", ToString(stats.skipped),
                  "Failed", ToString(stats.failed)>>],
      [style |-> "Heading1", text |-> <<"Table of Contents">>]>>
    \o toc_entries(summaries, 1) \o file_sections(summaries)

NoReport == [written |-> FALSE, text |-> << >>, story |-> << >>]

\* ---- environment ----
Sizes == {100 * 1024, 100 * 1024 + 1, 500 * 1024, 500 * 1024 + 1}

\* significant bytes of the files met by a walk: empty (all padding), ASCII,
\* a UTF-8 byte-order mark, a byte only cp1252/latin-1 accept, a byte only
\* latin-1 accepts
Contents == {<< >>, <<97>>, BOM, <<128>>, <<129>>}

Trees == UNION {[1..n -> Suffixes] : n \in 0..MaxFiles}

\* facts about the file being processed, as the filesystem and the endpoint
\* present them (size -1, resp "none": not reached)
Env(path) ==
    [path |-> path, exists |-> TRUE, size |-> -1, openable |-> TRUE,
     read |-> FALSE, resp |-> "none", value |-> None]

VARIABLES
    profile,          \* which program runs
    root,             \* what the directory argument names: nothing, a file, a directory
    tree,             \* suffixes of the entries in rglob('*') order
    pc,               \* position in main / process_directory / process_file
    it,               \* entries consumed by the for loop
    total_files, processed_files,
    relative_path, suffix,
    file_bytes,       \* bytes of the file just read
    code_content, summary,
    summaries, skipped_files, failed_files, stats,
    report, exit_code,
    pf_calls,         \* relative paths passed to process_file, in order
    opened,           \* relative paths opened for reading
    tried, used,      \* encodings attempted / selected for the last read
    prompted,         \* relative paths a prompt was built for
    requests,         \* requests posted to the endpoint and their answers, in order
    caught,           \* <<path, exception>> caught by process_file
    env,              \* facts about the current file
    finished,         \* relative paths process_file has returned for
    scan, selected    \* reader harness: strings read, encodings selected

vars == <<profile, root, tree, pc, it, total_files, processed_files,
          relative_path, suffix, file_bytes, code_content, summary,
          summaries, skipped_files, failed_files, stats, report, exit_code,
          pf_calls, opened, tried, used, prompted, requests, caught, env,
          finished, scan, selected>>

config == <<profile, root, tree>>
walk == <<it, total_files, processed_files, relative_path, suffix>>
books == <<summaries, skipped_files, failed_files, stats>>
reader == <<file_bytes, code_content, tried, used, opened>>
client == <<prompted, requests>>
output == <<report, exit_code>>
harness == <<scan, selected>>

\* Path(args.directory).resolve(): the argument names nothing, a file or a
\* directory; rglob('*') yields entries only under a directory
Roots == {"missing", "file", "dir"}
path_exists(d) == d # "missing"
path_is_dir(d) == d = "dir"

invalid_directory_missing_only(d) == ~path_exists(d)
\* if not directory_path.exists() or not directory_path.is_dir()
invalid_directory(d) == ~path_exists(d) \/ ~path_is_dir(d)

rootValid == path_exists(root) /\ path_is_dir(root)

Init ==
    /\ profile \in Profiles
    /\ root \in Roots
    /\ tree \in Trees
    /\ (root # "dir" => tree = << >>)
    /\ pc = "main"
    /\ it = 0
    /\ total_files = 0
    /\ processed_files = 0
    /\ relative_path = ""
    /\ suffix = ""
    /\ file_bytes = << >>
    /\ code_content = None
    /\ summary = None
    /\ summaries = << >>
    /\ skipped_files = << >>
    /\ failed_files = << >>
    /\ stats = NoStats
    /\ report = NoReport
    /\ exit_code = -1
    /\ pf_calls = << >>
    /\ opened = << >>
    /\ tried = << >>
    /\ used = ""
    /\ prompted = << >>
    /\ requests = << >>
    /\ caught = << >>
    /\ env = Env("")
    /\ finished = << >>
    /\ scan = 0
    /\ selected = {}

\* ---- main: argument check ----
MainInvalidDir ==
    /\ pc = "main"
    /\ invalid_directory(root)
    /\ pc' = "exit"
    /\ exit_code' = 1
    /\ UNCHANGED <<config, walk, books, reader, client, report, summary,
                   pf_calls, caught, env, finished, harness>>

MainStart ==
    /\ pc = "main"
    /\ ~invalid_directory(root)
    /\ pc' = "pd_count"
    /\ UNCHANGED <<config, walk, books, reader, client, output, summary,
                   pf_calls, caught, env, finished, harness>>

\* ---- process_directory ----
\* total_files = sum(1 for p in directory_path.rglob('*') if self.is_code_file(p))
count_code_files(p, t) == Cardinality({i \in 1..Len(t) : is_code_file(p, t[i])})

CountFiles ==
    /\ pc = "pd_count"
    /\ total_files' = count_code_files(profile, tree)
    /\ pc' = "pd_loop"
    /\ UNCHANGED <<config, it, processed_files, relative_path, suffix, books,
                   reader, client, output, summary, pf_calls, caught, env,
                   finished, harness>>

\* the for loop meets an entry is_code_file rejects
LoopSkip ==
    /\ pc = "pd_loop"
    /\ it < Len(tree)
    /\ ~is_code_file(profile, tree[it + 1])
    /\ it' = it + 1
    /\ UNCHANGED <<config, pc, total_files, processed_files, relative_path,
                   suffix, books, reader, client, output, summary, pf_calls,
                   caught, env, finished, harness>>

\* the for loop meets a code file and calls process_file
LoopEnter ==
    /\ pc = "pd_loop"
    /\ it < Len(tree)
    /\ is_code_file(profile, tree[it + 1])
    /\ it' = it + 1
    /\ processed_files' = processed_files + 1
    /\ relative_path' = RelPath(it + 1, tree[it + 1])
    /\ suffix' = tree[it + 1]
    /\ pf_calls' = Append(pf_calls, RelPath(it + 1, tree[it + 1]))
    /\ env' = Env(RelPath(it + 1, tree[it + 1]))
    /\ pc' = "pf_exists"
    /\ UNCHANGED <<config, total_files, books, reader, client, output,
                   summary, caught, finished, harness>>

\* process_file returns r (a value, or an exception its except clause did
\* not turn into None and that leaves process_directory and main)
Return(r) ==
    /\ summary' = r.v
    /\ pc' = IF r.k = "raise" THEN "crash" ELSE "pd_record"
    /\ finished' = Append(finished, relative_path)

\* if not file_path.exists(): return None
PFExists ==
    /\ pc = "pf_exists"
    /\ \E exists \in BOOLEAN :
        /\ env' = [env EXCEPT !.exists = exists]
        /\ IF exists
           THEN pc' = "pf_stat" /\ UNCHANGED <<summary, finished>>
           ELSE Return(Ret(None))
    /\ UNCHANGED <<config, walk, books, reader, client, output, pf_calls,
                   caught, harness>>

\* if file_path.stat().st_size > max_file_size: return None
PFStat ==
    /\ pc = "pf_stat"
    /\ \E size \in Sizes :
        /\ env' = [env EXCEPT !.size = size]
        /\ IF too_large(profile, size)
           THEN Return(Ret(None))
           ELSE pc' = "pf_read" /\ UNCHANGED <<summary, finished>>
    /\ UNCHANGED <<config, walk, books, reader, client, output, pf_calls,
                   caught, harness>>

\* open(file_path, 'r', encoding=...) for each encoding in turn; an OSError
\* (a directory named like a code file, no permission) reaches the outer except
PFRead ==
    /\ pc = "pf_read"
    /\ \E openable \in BOOLEAN, b \in Contents :
        /\ (~openable => b = << >>)
        /\ env' = [env EXCEPT !.openable = openable, !.read = openable]
        /\ IF ~openable
           THEN LET r == process_file_except(Raise("OSError"))
                IN /\ Return(r)
                   /\ caught' = IF r.k = "ret"
                                THEN Append(caught, <<relative_path, "OSError">>)
                                ELSE caught
                   /\ opened' = Append(opened, relative_path)
                   /\ UNCHANGED <<file_bytes, code_content, tried, used>>
           ELSE LET rd == read_with_encodings(encodings, b, 1)
                IN /\ file_bytes' = b
                   /\ opened' = Append(opened, relative_path)
                   /\ tried' = rd.tried
                   /\ used' = rd.used
                   /\ code_content' = rd.code_content
                   /\ caught' = caught
                   /\ IF rd.code_content = None
                      THEN Return(Ret(None))
                      ELSE pc' = "pf_call" /\ UNCHANGED <<summary, finished>>
    /\ UNCHANGED <<config, walk, books, client, output, pf_calls, harness>>

\* prompt = self._generate_prompt(...); self._call_ollama(prompt)
PFCall ==
    /\ pc = "pf_call"
    /\ \E resp \in Responses :
        LET prompt == generate_prompt(code_content, suffix)
            c == call_ollama(profile, resp)
            r == process_file_except(summarize_result(profile, relative_path, c))
        IN /\ prompted' = Append(prompted, relative_path)
           /\ requests' = requests \o [j \in 1..c.sent |->
                              [path |-> relative_path, kind |-> resp.kind,
                               value |-> resp.value]]
           /\ env' = [env EXCEPT !.resp = resp.kind, !.value = resp.value]
           /\ caught' = IF c.k = "raise" /\ r.k = "ret"
                        THEN Append(caught, <<relative_path, c.v.s[1]>>)
                        ELSE caught
           /\ Return(r)
    /\ file_bytes' = << >>
    /\ code_content' = None
    /\ UNCHANGED <<config, walk, books, opened, tried, used, output, pf_calls,
                   harness>>

\* if summary: summaries.append(...) else: failed_files.append(...)
PDRecord ==
    /\ pc = "pd_record"
    /\ IF Truthy(summary)
       THEN /\ summaries' = append_summary(summaries, <<relative_path, summary>>)
            /\ UNCHANGED failed_files
       ELSE /\ failed_files' = append_failed(profile, failed_files, relative_path)
            /\ UNCHANGED summaries
    /\ pc' = "pd_loop"
    /\ UNCHANGED <<config, walk, skipped_files, stats, reader, client, output,
                   summary, pf_calls, caught, env, finished, harness>>

\* the loop is exhausted: build stats and return to main
LoopEnd ==
    /\ pc = "pd_loop"
    /\ it = Len(tree)
    /\ stats' = make_stats(profile, total_files, summaries, skipped_files,
                           failed_files)
    /\ pc' = "main_report"
    /\ UNCHANGED <<config, walk, summaries, skipped_files, failed_files,
                   reader, client, output, summary, pf_calls, caught, env,
                   finished, harness>>

\* ---- main: report ----
render(p, sums, st) ==
    IF p = "CodeAnalyzer"
    THEN [written |-> TRUE, text |-> << >>,
          story |-> create_pdf_summary(sums, "root", st)]
    ELSE [written |-> TRUE, text |-> text_report(sums), story |-> << >>]

\* if summaries: try: write the report  except Exception: print the error
MainReport ==
    /\ pc = "main_report"
    /\ summaries # << >>
    /\ \E write_ok \in BOOLEAN :
        report' = IF write_ok THEN render(profile, summaries, stats) ELSE NoReport
    /\ pc' = "exit"
    /\ exit_code' = 0
    /\ UNCHANGED <<config, walk, books, reader, client, summary, pf_calls,
                   caught, env, finished, harness>>

\* else: print("No code files were successfully processed")
MainNoSummaries ==
    /\ pc = "main_report"
    /\ summaries = << >>
    /\ pc' = "exit"
    /\ exit_code' = 0
    /\ UNCHANGED <<config, walk, books, reader, client, report, summary,
                   pf_calls, caught, env, finished, harness>>

\* ---- reader harness: the encoding loop applied to every byte string ----
RECURSIVE Pow(_, _)
Pow(b, n) == IF n = 0 THEN 1 ELSE b * Pow(b, n - 1)

RECURSIVE NumStrings(_)
NumStrings(len) ==
    IF len = 0 THEN 1 ELSE Pow(Len(Alphabet), len) + NumStrings(len - 1)

\* the k-th byte string over Alphabet, shortest first (bijective numeration)
RECURSIVE NthString(_)
NthString(k) ==
    IF k = 0 THEN << >>
    ELSE <<Alphabet[((k - 1) % Len(Alphabet)) + 1]>>
         \o NthString((k - 1) \div Len(Alphabet))

InitRead ==
    /\ profile \in Profiles
    /\ root = "dir"
    /\ tree = << >>
    /\ pc = "read"
    /\ it = 0
    /\ total_files = 0
    /\ processed_files = 0
    /\ relative_path = ""
    /\ suffix = ""
    /\ file_bytes = << >>
    /\ code_content = None
    /\ summary = None
    /\ summaries = << >>
    /\ skipped_files = << >>
    /\ failed_files = << >>
    /\ stats = NoStats
    /\ report = NoReport
    /\ exit_code = -1
    /\ pf_calls = << >>
    /\ opened = << >>
    /\ tried = << >>
    /\ used = ""
    /\ prompted = << >>
    /\ requests = << >>
    /\ caught = << >>
    /\ env = Env("")
    /\ finished = << >>
    /\ scan = 0
    /\ selected = {}

\* lines 80-90 of process_file on the next byte string
ReadScan ==
    /\ pc = "read"
    /\ scan < NumStrings(MaxLen)
    /\ LET rd == read_with_encodings(encodings, NthString(scan), 1)
       IN /\ file_bytes' = NthString(scan)
          /\ tried' = rd.tried
          /\ used' = rd.used
          /\ code_content' = rd.code_content
          /\ selected' = IF rd.used = "" THEN selected ELSE selected \cup {rd.used}
    /\ scan' = scan + 1
    /\ UNCHANGED <<config, pc, walk, books, opened, client, output, summary,
                   pf_calls, caught, env, finished>>

ReadDone ==
    /\ pc = "read"
    /\ scan = NumStrings(MaxLen)
    /\ pc' = "read_done"
    /\ UNCHANGED <<config, walk, books, reader, client, output, summary,
                   pf_calls, caught, env, finished, harness>>

NextRead == ReadScan \/ ReadDone

SpecRead == InitRead /\ [][NextRead]_vars

Next ==
    \/ MainInvalidDir
    \/ MainStart
    \/ CountFiles
    \/ LoopSkip
    \/ LoopEnter
    \/ PFExists
    \/ PFStat
    \/ PFRead
    \/ PFCall
    \/ PDRecord
    \/ LoopEnd
    \/ MainReport
    \/ MainNoSummaries

Spec == Init /\ [][Next]_vars

\* ======================= properties =======================
Range(q) == {q[j] : j \in DOMAIN q}

\* the walk has recorded the outcome of the file described by env
Recorded == pc \in {"pd_loop", "main_report", "exit"} /\ env.path # ""

\* process_directory has returned to main
Returned == pc \in {"main_report", "exit"} /\ rootValid

SummaryPaths == {summaries[j][1] : j \in DOMAIN summaries}
RequestPaths == {requests[j].path : j \in DOMAIN requests}

\* size limit of each program, in bytes
SizeCap == IF profile = "CodeAnalyzer" THEN 512000 ELSE 102400

\* entries whose extension, lower-cased, is in the allow-list
Allowed == {i \in 1..Len(tree) : Lower(tree[i]) \in code_extensions(profile)}

\* relative paths of the allowed entries from position i on, in walk order
RECURSIVE AllowedPathsFrom(_)
AllowedPathsFrom(i) ==
    IF i > Len(tree) THEN << >>
    ELSE (IF i \in Allowed THEN <<RelPath(i, tree[i])>> ELSE << >>)
         \o AllowedPathsFrom(i + 1)

\* C1: a classified file larger than the size limit is recorded as skipped
\* (in skipped_files, not in failed_files), is never opened and no request
\* is sent for it.
C1_OversizeSkipped ==
    (Recorded /\ env.size > SizeCap) =>
        /\ env.path \notin Range(opened)
        /\ env.path \notin RequestPaths
        /\ env.path \notin SummaryPaths
        /\ (profile = "CodeAnalyzer" =>
                /\ env.path \in Range(skipped_files)
                /\ env.path \notin Range(failed_files))

\* C2: when process_directory has returned, stats.total is the number of
\* entries is_code_file accepts and success + skipped + failed = total.
C2_StatsAddUp ==
    (Returned /\ stats.set) =>
        /\ stats.total = Cardinality({i \in 1..Len(tree) : is_code_file(profile, tree[i])})
        /\ stats.success + stats.skipped + stats.failed = stats.total

C2_Witness ==
    /\ pc = "exit"
    /\ stats.set
    /\ stats.total >= 2
    /\ stats.success >= 1
    /\ stats.failed >= 1

\* C3: no failure of a single file aborts the walk: no exception leaves
\* process_file, and when process_directory has returned process_file has
\* run exactly once for every classified file, in walk order.
C3_WalkNeverAborts ==
    /\ pc # "crash"
    /\ (Returned => /\ pf_calls = AllowedPathsFrom(1)
                    /\ finished = pf_calls)

C3_Witness ==
    /\ pc = "exit"
    /\ exit_code = 0
    /\ Len(pf_calls) >= 2
    /\ \E e \in {"NameError", "OSError", "AttributeError"} :
           <<pf_calls[1], e>> \in Range(caught)
    /\ pf_calls[Len(pf_calls)] \in SummaryPaths

\* requests whose file has been recorded by the walk
RecordedRequests ==
    {j \in DOMAIN requests :
        requests[j].path # relative_path \/ pc \in {"pd_loop", "main_report", "exit"}}

RequestFailed(r) == r.kind \in {"conn_error", "http_error", "bad_json"}
EmptyAnswer(r) ==
    r.kind = "no_key" \/ (r.kind = "value" /\ r.value \in {None, Str(<< >>)})
TextAnswer(r) == r.kind = "value" /\ r.value.t = "str" /\ r.value.s # << >>

\* paths listed by the table of contents / heading the body sections of the
\* written report, in document order
RECURSIVE TokensAfter(_, _)
TokensAfter(text, mark) ==
    IF Len(text) < 2 THEN << >>
    ELSE (IF Head(text) = mark THEN <<text[2]>> ELSE << >>)
         \o TokensAfter(Tail(text), mark)

IsTocEntry(b) == b.style = "Normal" /\ Len(b.text) = 3 /\ b.text[2] = ". "
IsFileHeader(b) == b.style = "FileHeader"

RECURSIVE BlockPaths(_, _)
BlockPaths(story, toc) ==
    IF story = << >> THEN << >>
    ELSE LET b == Head(story)
         IN (IF toc /\ IsTocEntry(b) THEN <<b.text[3]>>
             ELSE IF ~toc /\ IsFileHeader(b) THEN <<b.text[2]>>
             ELSE << >>) \o BlockPaths(Tail(story), toc)

TocPaths ==
    IF profile = "CodeAnalyzer" THEN BlockPaths(report.story, TRUE)
    ELSE TokensAfter(report.text, "- ")

BodyPaths ==
    IF profile = "CodeAnalyzer" THEN BlockPaths(report.story, FALSE)
    ELSE TokensAfter(report.text, "Code Analysis for: ")

\* C4: a file whose request failed (connection error or timeout, error
\* status, unparsable body) is counted as failed, never as a success, and
\* is absent from the table of contents and the body of the report.
C4_FailedRequest ==
    \A j \in RecordedRequests :
        RequestFailed(requests[j]) =>
            /\ requests[j].path \notin SummaryPaths
            /\ (profile = "CodeAnalyzer" => requests[j].path \in Range(failed_files))
            /\ (stats.set => /\ stats.failed = Len(failed_files)
                             /\ stats.success = Len(summaries))
            /\ (report.written => /\ requests[j].path \notin Range(TocPaths)
                                  /\ requests[j].path \notin Range(BodyPaths))

C4_Witness ==
    /\ pc = "exit"
    /\ report.written
    /\ Len(requests) = 2
    /\ RequestFailed(requests[1])
    /\ TextAnswer(requests[2])

\* C5: an entry whose lower-cased extension is not in the allow-list is
\* rejected by is_code_file, is never passed to process_file, never opened,
\* never prompted for or requested, and is not counted in the total.
C5_UnrecognizedIgnored ==
    /\ \A i \in (1..Len(tree)) \ Allowed :
        /\ ~is_code_file(profile, tree[i])
        /\ RelPath(i, tree[i]) \notin
               Range(pf_calls) \cup Range(opened) \cup Range(prompted) \cup RequestPaths
    /\ (pc \notin {"main", "pd_count"} /\ rootValid => total_files = Cardinality(Allowed))
    /\ (stats.set => stats.total = Cardinality(Allowed))

C5_Witness ==
    /\ pc = "exit"
    /\ Len(tree) = 2
    /\ Cardinality(Allowed) = 1
    /\ Len(pf_calls) = 1
    /\ Len(requests) = 1
    /\ \E i \in 1..2 : tree[i] = ".PY"

\* C8: every recorded summary is a non-empty text; an absent, null or empty
\* answer is never recorded as a success and is counted as failed.
C8_NonEmptySummaries ==
    /\ \A j \in DOMAIN summaries :
           summaries[j][2].t = "str" /\ summaries[j][2].s # << >>
    /\ \A j \in RecordedRequests :
        EmptyAnswer(requests[j]) =>
            /\ requests[j].path \notin SummaryPaths
            /\ (profile = "CodeAnalyzer" => requests[j].path \in Range(failed_files))

C8_Witness ==
    /\ pc = "exit"
    /\ Len(requests) = 2
    /\ requests[1].kind = "value"
    /\ requests[1].value = Str(<< >>)
    /\ TextAnswer(requests[2])
    /\ Len(summaries) = 1

\* C9: at most one request is sent per classified file, whatever its
\* outcome, and a request is sent only when process_file has returned for
\* every file met earlier in the walk.
C9_OneRequestSequential ==
    /\ \A j, k \in DOMAIN requests : requests[j].path = requests[k].path => j = k
    /\ \A j \in DOMAIN requests :
        \E c \in DOMAIN pf_calls :
            /\ pf_calls[c] = requests[j].path
            /\ \A e \in 1..(c - 1) : pf_calls[e] \in Range(finished)
    /\ \A j \in 1..(Len(requests) - 1) :
        requests[j].path \in Range(finished)

C9_Witness ==
    /\ pc = "pd_record"
    /\ Len(requests) = 2
    /\ requests[1].kind = "conn_error"
    /\ requests[2].kind = "http_error"

\* paths of the files answered with a non-empty text, in walk order
SuccessPaths ==
    SelectSeq(AllowedPathsFrom(1),
              LAMBDA q : \E j \in DOMAIN requests :
                             requests[j].path = q /\ TextAnswer(requests[j]))

\* C10: the written report lists in its table of contents exactly the
\* successful files, once each, in walk order, and its body sections follow
\* in the same order; other files appear in neither.
C10_ReportOrder ==
    report.written =>
        /\ TocPaths = SuccessPaths
        /\ BodyPaths = SuccessPaths

C10_Witness ==
    /\ report.written
    /\ Len(TocPaths) = 2
    /\ Len(finished) = 2

\* C7: the reader tries utf-8, utf-8-sig, latin-1, cp1252 in that order,
\* keeps the text of the first encoding that decodes the file and tries none
\* after it; and each of the four encodings is the first successful one for
\* some file.
C7_EveryEncodingSelectable ==
    /\ (pc \in {"read", "read_done"} /\ scan > 0) =>
           /\ tried = SubSeq(encodings, 1, Len(tried))
           /\ used = tried[Len(tried)]
           /\ code_content = Str(decode(used, file_bytes).text)
           /\ \A j \in 1..(Len(tried) - 1) : ~decode(tried[j], file_bytes).ok
    /\ (pc = "read_done" => selected = Range(encodings))

\* C11: when the directory argument does not exist or is not a directory,
\* the run ends with a non-zero exit status before any entry is classified,
\* read or sent to the endpoint, and no report is written.
C11_InvalidRootFatal ==
    (root # "dir") =>
        /\ pc \in {"main", "exit"}
        /\ (pc = "exit" => exit_code = 1)
        /\ total_files = 0
        /\ processed_files = 0
        /\ pf_calls = << >>
        /\ opened = << >>
        /\ prompted = << >>
        /\ requests = << >>
        /\ ~report.written

C11_Witness ==
    /\ root = "file"
    /\ pc = "exit"
    /\ exit_code = 1

\* C12: when the walk produced at least one summary and writing the report
\* failed, the run does not end like a run whose report was saved: its exit
\* status is not zero.
C12_WriteFailureSurfaced ==
    (pc = "exit" /\ rootValid /\ summaries # << >> /\ ~report.written) =>
        exit_code # 0

====
